---- MODULE Spec2Model ----
(***************************************************************************)
(* Model of package nef (midbel/exif): the decoder of a TIFF-based raw     *)
(* image container.  Decode builds a forest of Files from a byte buffer;  *)
(* the query surface (TagsFor, GetTag, Image, Bytes) reads the forest.    *)
(*                                                                         *)
(* Bytes are the integers 0..255 and the buffer is a sequence of bytes;    *)
(* file offset k is element k+1 of the sequence.  A byte order is "LE" or  *)
(* "BE".  A uint32 read from the buffer is kept as its number when that    *)
(* number is below Huge (2^31-1, the largest integer TLC computes with)    *)
(* and as Huge otherwise; every buffer of the model is far shorter than    *)
(* Huge, so a Huge offset or length is past the end of the buffer exactly  *)
(* as the number it stands for is.  Raw bytes are always kept exactly.     *)
(***************************************************************************)
EXTENDS Integers, Sequences, FiniteSets, TLC

VARIABLES
    buf,      \* the bytes Decode read from its io.Reader (ioutil.ReadAll)
    input,    \* how the buffer was laid out (the description of the input)
    pc,       \* position of Decode: "start", "loop", "done", "failed"
    order,    \* the byte order readOrder detected: "LE", "BE" or "none"
    pos,      \* position of the bytes.Reader rs
    offset,   \* Decode's local offset: the next root directory
    files,    \* Decode's local files: the roots decoded so far
    short,    \* whether some read of Decode ran past the end of the buffer
    err,      \* the error Decode returned ("nil" when none)
    res,      \* the last query made on the finished forest and its result
    seen      \* the queries made before it and their results, in order

vars == <<buf, input, pc, order, pos, offset, files, short, err, res, seen>>

----------------------------------------------------------------------------
(* Program constants.                                                      *)

Tiff == 0
Exif == 34665
Nef == 330
Note == 37500
Gps == 34853

Xmp == 700
Comment == 37510
ImageWidth == 256
ImageLength == 257
JpegFromRawStart == 513
JpegFromRawLength == 514
StripOffsets == 273
RowsPerStrip == 278
StripByteCounts == 279
Photometric == 262
BitsPerSample == 258

ImgBlack == 0
ImgWhite == 1
ImgRGB == 2
ImgPalette == 3
ImgMask == 4
ImgCMYK == 5
ImgYCbCr == 6

Byte == 1
String == 2
Short == 3
Long == 4
Rational == 5
SByte == 6
Undef == 7
SShort == 8
SLong == 9
SRational == 10
Float == 11
Double == 12

little == <<73, 73>>
big == <<77, 77>>
magicbe == <<0, 42>>
magicle == <<42, 0>>
nikon == <<78, 105, 107, 111, 110, 0>>

Huge == 2147483647

----------------------------------------------------------------------------
(* Bytes and numbers.                                                      *)

Min(a, b) == IF a < b THEN a ELSE b

Reverse(s) == [i \in 1..Len(s) |-> s[Len(s) + 1 - i]]

\* The bytes of b at file offsets [at, at+n), cut at the end of the buffer.
Slice(b, at, n) ==
    IF at >= Len(b) \/ n <= 0 THEN <<>>
    ELSE SubSeq(b, at + 1, IF n >= Len(b) - at THEN Len(b) ELSE at + n)

\* The number of four bytes given least significant first.
NumLE(bs) ==
    IF bs[4] >= 128 THEN Huge
    ELSE bs[1] + 256 * bs[2] + 65536 * bs[3] + 16777216 * bs[4]

\* binary.ByteOrder.Uint16 and Uint32 of the first bytes of bs.
Uint16(o, bs) == IF o = "LE" THEN bs[1] + 256 * bs[2] ELSE bs[2] + 256 * bs[1]

Uint32(o, bs) ==
    NumLE(IF o = "LE" THEN SubSeq(bs, 1, 4) ELSE Reverse(SubSeq(bs, 1, 4)))

\* The four bytes, least significant first, of (the uint32 bs) + d mod 2^32,
\* for 0 <= d < Huge: byte-wise addition with carry.
RECURSIVE AddLE(_, _)
AddLE(bs, d) ==
    IF bs = <<>> THEN <<>>
    ELSE LET s == bs[1] + (d % 256)
         IN  <<s % 256>> \o AddLE(Tail(bs), (d \div 256) + (s \div 256))

\* The error io.ReadFull gives when n bytes are wanted at offset at and the
\* buffer ends first: io.EOF when no byte was read, ErrUnexpectedEOF otherwise.
ShortErr(b, at) == IF at >= Len(b) THEN "EOF" ELSE "ErrUnexpectedEOF"

----------------------------------------------------------------------------
(* Format.Size and Tag.Size.                                               *)

FormatSize(f) ==
    IF f \in {Byte, String, SByte, Undef} THEN 1
    ELSE IF f \in {Short, SShort} THEN 2
    ELSE IF f \in {Long, SLong, Float} THEN 4
    ELSE IF f \in {Rational, SRational, Double} THEN 8
    ELSE 0

\* Type.Size() * int(Count), Huge when the product is not below Huge.
TagSize(type, count) ==
    IF FormatSize(type) = 0 THEN 0
    ELSE IF count > Huge \div FormatSize(type) THEN Huge
    ELSE FormatSize(type) * count

----------------------------------------------------------------------------
(* readOrder: the 4-byte order header at the reader's position.            *)

readOrder(b, at) ==
    LET intro == Slice(b, at, 4)
    IN  IF Len(intro) < 4
        THEN [err |-> ShortErr(b, at), order |-> "none", short |-> TRUE]
        ELSE IF SubSeq(intro, 1, 2) = little
        THEN IF SubSeq(intro, 3, 4) = magicle
             THEN [err |-> "nil", order |-> "LE", short |-> FALSE]
             ELSE [err |-> "invalid magic number", order |-> "none", short |-> FALSE]
        ELSE IF SubSeq(intro, 1, 2) = big
        THEN IF SubSeq(intro, 3, 4) = magicbe
             THEN [err |-> "nil", order |-> "BE", short |-> FALSE]
             ELSE [err |-> "invalid magic number", order |-> "none", short |-> FALSE]
        ELSE [err |-> "invalid byte order", order |-> "none", short |-> FALSE]

----------------------------------------------------------------------------
(* readTags: one directory at offset at, external payloads at value+delta. *)

\* The Tag built from the 12-byte descriptor d (lines 758-775), its Raw left
\* empty when the payload is external.
MakeTagOf(o, id, typ, cnt, sum, family) ==
    [Id |-> id,
     Type |-> typ,
     Count |-> cnt,
     Offset |-> NumLE(sum),
     Raw |-> IF TagSize(typ, cnt) > 4 THEN <<>>
             ELSE IF o = "LE" THEN sum ELSE Reverse(sum),
     family |-> family,
     order |-> o]

MakeTag(o, d, delta, family) ==
    MakeTagOf(o, Uint16(o, SubSeq(d, 1, 2)), Uint16(o, SubSeq(d, 3, 4)),
              Uint32(o, SubSeq(d, 5, 8)),
              AddLE(IF o = "LE" THEN SubSeq(d, 9, 12) ELSE Reverse(SubSeq(d, 9, 12)),
                    delta),
              family)

\* Lines 766-776 for the Tag tag of size z: the payload, then the rest of the
\* loop (rest is the result of reading the entries that follow, given the
\* tags read so far).
RECURSIVE readEntries(_, _, _, _, _, _, _, _)

withPayload(b, o, delta, family, count, i, at, tags, tag, z) ==
    IF z > 4
    THEN IF tag.Offset >= Len(b) \/ z > Len(b) - tag.Offset
         THEN [err |-> ShortErr(b, tag.Offset), tags |-> <<>>, pos |-> at + 12,
               short |-> TRUE]
         ELSE readEntries(b, o, delta, family, count, i + 1, at + 12,
                          Append(tags, [tag EXCEPT !.Raw = Slice(b, tag.Offset, z)]))
    ELSE readEntries(b, o, delta, family, count, i + 1, at + 12, Append(tags, tag))

withTag(b, o, delta, family, count, i, at, tags, tag) ==
    withPayload(b, o, delta, family, count, i, at, tags, tag,
                TagSize(tag.Type, tag.Count))

\* withEntry with the test of line 752 written g.Id < tags[n-1].Id.
withEntryRepeated(b, o, delta, family, count, i, at, tags, d) ==
    IF Len(tags) > 0 /\ Uint16(o, SubSeq(d, 1, 2)) < tags[Len(tags)].Id
    THEN [err |-> "tags not sorted properly", tags |-> <<>>, pos |-> at + 12,
          short |-> FALSE]
    ELSE IF \A k \in 5..8 : d[k] = 255
    THEN [err |-> "invalid count", tags |-> <<>>, pos |-> at + 12, short |-> FALSE]
    ELSE withTag(b, o, delta, family, count, i, at, tags, MakeTag(o, d, delta, family))

\* Lines 749-757 for the 12-byte descriptor d.
withEntry(b, o, delta, family, count, i, at, tags, d) ==
    IF Len(tags) > 0 /\ Uint16(o, SubSeq(d, 1, 2)) <= tags[Len(tags)].Id
    THEN [err |-> "tags not sorted properly", tags |-> <<>>, pos |-> at + 12,
          short |-> FALSE]
    ELSE IF \A k \in 5..8 : d[k] = 255
    THEN [err |-> "invalid count", tags |-> <<>>, pos |-> at + 12, short |-> FALSE]
    ELSE withTag(b, o, delta, family, count, i, at, tags, MakeTag(o, d, delta, family))

\* The loop of lines 742-777 from entry i on, the reader at at.
readEntries(b, o, delta, family, count, i, at, tags) ==
    IF i >= count THEN [err |-> "nil", tags |-> tags, pos |-> at, short |-> FALSE]
    ELSE IF at + 12 > Len(b)
    THEN [err |-> ShortErr(b, at), tags |-> <<>>, pos |-> Len(b), short |-> TRUE]
    ELSE withEntry(b, o, delta, family, count, i, at, tags, Slice(b, at, 12))

readTags(b, o, at, delta, family) ==
    IF at + 2 > Len(b)
    THEN [err |-> ShortErr(b, at), tags |-> <<>>, pos |-> Len(b), short |-> TRUE]
    ELSE readEntries(b, o, delta, family, Uint16(o, Slice(b, at, 2)), 0, at + 2, <<>>)

----------------------------------------------------------------------------
(* sort.Search and the lookups built on it.                                *)

\* sort.Search(len(tags), func(i) { return tags[i].Id >= id }): the loop of
\* the binary search, on 0-based indices lo <= hi.
RECURSIVE SearchLoop(_, _, _, _)
SearchLoop(tags, id, lo, hi) ==
    IF lo >= hi THEN lo
    ELSE LET h == (lo + hi) \div 2
         IN  IF tags[h + 1].Id >= id
             THEN SearchLoop(tags, id, lo, h)
             ELSE SearchLoop(tags, id, h + 1, hi)

Search(tags, id) == SearchLoop(tags, id, 0, Len(tags))

\* The test every caller makes on the result of the search.
Missing(tags, id) ==
    LET x == Search(tags, id) IN x >= Len(tags) \/ tags[x + 1].Id # id

Found(tags, id) == tags[Search(tags, id) + 1]

----------------------------------------------------------------------------
(* The tree builder.                                                       *)

\* The result of a reader of the tree builder that found no tag to follow:
\* pos is where it left the reader, -1 when it did not move it.
NoTags == [err |-> "nil", tags |-> <<>>, short |-> FALSE, pos |-> -1]

\* What readTags returns to the tree builder: its tags or its error, and
\* where it left the reader.
Tags(t) == [err |-> t.err, tags |-> t.tags, short |-> t.short, pos |-> t.pos]

exifTags(b, o, tags) ==
    IF Missing(tags, Exif) THEN NoTags
    ELSE Tags(readTags(b, o, Found(tags, Exif).Offset, 0, Exif))

gpsTags(b, o, tags) ==
    IF Missing(tags, Gps) THEN NoTags
    ELSE Tags(readTags(b, o, Found(tags, Gps).Offset, 0, Gps))

\* noteDir with the rebase of line 681 written tags[x].Offset.
noteDirNoPreamble(b, at, ro, field) ==
    IF ro.err # "nil" THEN [err |-> ro.err, tags |-> <<>>, short |-> ro.short]
    ELSE IF Len(field) < 4
    THEN [err |-> ShortErr(b, at + 14), tags |-> <<>>, short |-> TRUE]
    ELSE Tags(readTags(b, ro.order,
                       NumLE(AddLE(IF ro.order = "LE" THEN field ELSE Reverse(field),
                                   at + 10)),
                       at, Note))

\* Lines 672-684 of notesTags, for the block at offset at whose order
\* header gave ro and whose internal offset field holds the bytes field.
noteDir(b, at, ro, field) ==
    IF ro.err # "nil" THEN [err |-> ro.err, tags |-> <<>>, short |-> ro.short]
    ELSE IF Len(field) < 4
    THEN [err |-> ShortErr(b, at + 14), tags |-> <<>>, short |-> TRUE]
    ELSE Tags(readTags(b, ro.order,
                       NumLE(AddLE(IF ro.order = "LE" THEN field ELSE Reverse(field),
                                   at + 10)),
                       at + 10, Note))

\* Lines 662-671 of notesTags, for the block at offset at.
noteBlock(b, at, preamble) ==
    IF Len(preamble) < 10
    THEN [err |-> ShortErr(b, at), tags |-> <<>>, short |-> TRUE]
    ELSE IF SubSeq(preamble, 1, 6) # nikon THEN [NoTags EXCEPT !.pos = at + 10]
    ELSE noteDir(b, at, readOrder(b, at + 10), Slice(b, at + 14, 4))

noteAt(b, at) == noteBlock(b, at, Slice(b, at, 10))

notesTags(b, tags) ==
    IF Missing(tags, Note) THEN NoTags
    ELSE noteAt(b, Found(tags, Note).Offset)

\* The loop of lines 704-706: n uint32 read one after the other from the
\* reader at at; the error of binary.Read is dropped, so an offset that
\* cannot be read in full stays 0.
RECURSIVE readOffsets(_, _, _, _)
readOffsets(b, o, at, n) ==
    IF n <= 0 THEN <<>>
    ELSE IF at + 4 <= Len(b)
    THEN <<Uint32(o, Slice(b, at, 4))>> \o readOffsets(b, o, at + 4, n - 1)
    ELSE <<0>> \o readOffsets(b, o, IF at >= Len(b) THEN at ELSE Len(b), n - 1)

\* Where that loop leaves the reader.
RECURSIVE offsetsEnd(_, _, _)
offsetsEnd(b, at, n) ==
    IF n <= 0 THEN at
    ELSE IF at + 4 <= Len(b) THEN offsetsEnd(b, at + 4, n - 1)
    ELSE offsetsEnd(b, IF at >= Len(b) THEN at ELSE Len(b), n - 1)

\* The loop of lines 708-714 from index i on, the reader at cur.
RECURSIVE readChildren(_, _, _, _, _, _)

withChild(b, o, ps, i, data, t) ==
    IF t.err # "nil" THEN [err |-> t.err, data |-> <<>>, short |-> t.short]
    ELSE readChildren(b, o, ps, i + 1, Append(data, t.tags), t.pos)

readChildren(b, o, ps, i, data, cur) ==
    IF i > Len(ps) THEN [err |-> "nil", data |-> data, short |-> FALSE, pos |-> cur]
    ELSE withChild(b, o, ps, i, data, readTags(b, o, ps[i], 0, Tiff))

\* Lines 700-715 of subTags for the tag t of id 0x014a.
subDirs(b, o, t, c) ==
    [c EXCEPT !.short = c.short \/ (t.Count > 0 /\ (t.Offset >= Len(b)
                                    \/ t.Count > (Len(b) - t.Offset) \div 4))]

subAt(b, o, t) ==
    subDirs(b, o, t, readChildren(b, o, readOffsets(b, o, t.Offset, t.Count), 1, <<>>,
                                  offsetsEnd(b, t.Offset, t.Count)))

subTags(b, o, tags) ==
    IF Missing(tags, Nef)
    THEN [err |-> "nil", data |-> <<>>, short |-> FALSE, pos |-> -1]
    ELSE subAt(b, o, Found(tags, Nef))

NoFile == [tiff |-> <<>>, exif |-> <<>>, notes |-> <<>>, gps |-> <<>>,
           Index |-> <<>>, Files |-> <<>>]

\* Child without line 622.
ChildNoNotes(index, i, ts, exif, notes) ==
    [tiff |-> ts, exif |-> exif, notes |-> <<>>, gps |-> <<>>,
     Index |-> <<index, i>>, Files |-> <<>>]

\* The child File of lines 615-622.
Child(index, i, ts, exif, notes) ==
    [tiff |-> ts, exif |-> exif, notes |-> notes, gps |-> <<>>,
     Index |-> <<index, i>>, Files |-> <<>>]

\* readDirectory: pos is the reader position the deferred Seek restores.  The
\* steps of the function follow one another as operators: each takes what
\* the steps before it read.
FailDir(e, s, at) == [err |-> e, file |-> NoFile, pos |-> at, short |-> s]

\* Where the readers of the children left the reader: the last of them that
\* moved it, the position after the root directory when none did.
cursor(t, e, g, n, s) ==
    IF s.pos >= 0 THEN s.pos
    ELSE IF n.pos >= 0 THEN n.pos
    ELSE IF g.pos >= 0 THEN g.pos
    ELSE IF e.pos >= 0 THEN e.pos
    ELSE t.pos

\* readDirectory without the deferred Seek.
seekBackMissing(saved, cur) == cur

\* The deferred Seek of line 593: the reader is back at the position saved
\* after the root directory, wherever it is when readDirectory returns.
seekBack(saved, cur) == saved

dirFiles(index, t, e, g, n, s) ==
    IF s.err # "nil" THEN FailDir(s.err, s.short, t.pos)
    ELSE [err |-> "nil",
          file |-> [tiff |-> t.tags, exif |-> e.tags, notes |-> n.tags,
                    gps |-> g.tags, Index |-> <<index>>,
                    Files |-> [i \in 1..Len(s.data) |->
                                 Child(index, i - 1, s.data[i], e.tags, n.tags)]],
          pos |-> seekBack(t.pos, cursor(t, e, g, n, s)),
          short |-> s.short]

dirNotes(b, o, index, t, e, g, n) ==
    IF n.err # "nil" THEN FailDir(n.err, n.short, t.pos)
    ELSE dirFiles(index, t, e, g, n, subTags(b, o, t.tags))

dirGps(b, o, index, t, e, g) ==
    IF g.err # "nil" THEN FailDir(g.err, g.short, t.pos)
    ELSE dirNotes(b, o, index, t, e, g, notesTags(b, e.tags))

dirExif(b, o, index, t, e) ==
    IF e.err # "nil" THEN FailDir(e.err, e.short, t.pos)
    ELSE dirGps(b, o, index, t, e, gpsTags(b, o, t.tags))

dirTiff(b, o, index, t) ==
    IF t.err # "nil" THEN FailDir(t.err, t.short, t.pos)
    ELSE dirExif(b, o, index, t, exifTags(b, o, t.tags))

readDirectory(b, o, at, index) == dirTiff(b, o, index, readTags(b, o, at, 0, Tiff))

----------------------------------------------------------------------------
(* Input buffers.  A buffer is laid out from a description c: the header,  *)
(* the first root offset, then the EXIF and GPS directories, the sub-IFD   *)
(* offset array and the sub-IFD directories, the external payloads and the *)
(* strips, the MakerNote block, and last the root directories, each        *)
(* followed by the offset field of the chain.                              *)

MaxSub == 2       \* the largest count of tag 0x014a
MaxStrips == 2    \* the largest number of strip offset/length pairs
MaxRoots == 3     \* Decode is followed for at most this many roots

Orders == {"LE", "BE"}

E16(o, v) == IF o = "LE" THEN <<v % 256, v \div 256>> ELSE <<v \div 256, v % 256>>

E32(o, v) ==
    LET le == <<v % 256, (v \div 256) % 256, (v \div 65536) % 256, v \div 16777216>>
    IN  IF o = "LE" THEN le ELSE Reverse(le)

RECURSIVE Concat(_)
Concat(ss) == IF ss = <<>> THEN <<>> ELSE Head(ss) \o Concat(Tail(ss))

\* An entry of a directory: val is the value field as it lies in the file.
Ent(id, type, count, val) == [id |-> id, type |-> type, count |-> count, val |-> val]

EncEnt(o, e) == E16(o, e.id) \o E16(o, e.type) \o E32(o, e.count) \o e.val

EncDir(o, es) == E16(o, Len(es)) \o Concat([i \in 1..Len(es) |-> EncEnt(o, es[i])])

DirLen(n) == 2 + 12 * n

\* A Short or Byte value lies left-justified in the value field.
InShort(o, v) == E16(o, v) \o <<0, 0>>

InNum(o, type, v) == IF type = Short THEN InShort(o, v) ELSE E32(o, v)

\* The ids of a directory out of order: the first two entries exchanged
\* ("swap") or the second entry given the id of the first ("dup").
Spoil(es, how) ==
    IF how = "swap" /\ Len(es) >= 2
    THEN <<es[2], es[1]>> \o SubSeq(es, 3, Len(es))
    ELSE IF how = "dup" /\ Len(es) >= 2
    THEN <<es[1], [es[2] EXCEPT !.id = es[1].id]>> \o SubSeq(es, 3, Len(es))
    ELSE es

SpoilIf(c, dir, es) == IF c.bad = dir THEN Spoil(es, c.how) ELSE es

\* The bytes of strip i, and the strips one after the other.
StripLen == 2
Strip(i) == [k \in 1..StripLen |-> 16 * i + k]
Strips(n) == Concat([i \in 1..n |-> Strip(i)])
JpegData == <<127, 100, 127, 101>>
MakeData == <<78, 73, 75, 79, 78, 0>>
TimeData(o) == E32(o, 1) \o E32(o, 3)
ModeData == <<65, 85, 84, 79, 32, 0>>
OtherNote == <<67, 97, 110, 111, 110, 0, 1, 2, 3, 4, 5, 6>>
ShortNote == <<67, 97, 110, 111, 110, 0, 1, 2>>

\* The payload of a tag of the given type and count, as components of w
\* bytes each, most significant byte first: a Rational is two components of
\* 4 bytes, every other element one component of the size of its format.
CompWidth(type) == IF type \in {Rational, SRational} THEN 4 ELSE FormatSize(type)

CompCount(type, count) ==
    IF type \in {Rational, SRational} THEN 2 * count
    ELSE IF FormatSize(type) = 0 THEN 0 ELSE count

\* Component k of a payload.  Pattern 1 gives small numbers: k, and for a
\* Rational the pairs (1, 3), (2, 4), ...; pattern 2 gives numbers with the
\* highest bit set.
Comp(type, k, pat) ==
    [j \in 1..CompWidth(type) |->
        IF pat = 1
        THEN IF j < CompWidth(type) THEN 0
             ELSE IF type \notin {Rational, SRational} THEN k
             ELSE IF k % 2 = 1 THEN (k + 1) \div 2 ELSE (k \div 2) + 2
        ELSE IF j = 1 THEN 256 - k ELSE 16 * k + j]

TagData(o, g) ==
    Concat([k \in 1..CompCount(g.type, g.count) |->
              IF o = "LE" THEN Reverse(Comp(g.type, k, g.pat))
              ELSE Comp(g.type, k, g.pat)])

\* The value field of the tag g whose payload, when external, lies at at.
TagField(o, g, at) ==
    IF FormatSize(g.type) = 0 THEN E32(o, 5)
    ELSE IF Len(TagData(o, g)) > 4 THEN E32(o, at)
    ELSE TagData(o, g) \o [k \in 1..(4 - Len(TagData(o, g))) |-> 0]

\* Sub-IFD directory i of n: one entry, and from the second on two.
KidEntries(o, i) ==
    IF i = 1 THEN <<Ent(ImageWidth, Short, 1, InShort(o, 1))>>
    ELSE <<Ent(ImageWidth, Short, 1, InShort(o, i)),
           Ent(ImageLength, Short, 1, InShort(o, i + 1))>>

KidLen(i) == DirLen(IF i = 1 THEN 1 ELSE 2)

RECURSIVE KidsLen(_)
KidsLen(n) == IF n = 0 THEN 0 ELSE KidsLen(n - 1) + KidLen(n)

\* The MakerNote block of a Nikon file whose directory is in order no: the
\* 10-byte preamble, the order header, the internal offset 8, three entries and the
\* external payload of the last, all offsets relative to the order header.
NoteEntries(no) ==
    <<Ent(1, Undef, 4, <<48, 50, 49, 48>>),
      Ent(2, Short, 2, E16(no, 0) \o E16(no, 100)),
      Ent(5, String, 6, E32(no, 8 + DirLen(3)))>>

NoteBlock(c) ==
    nikon \o <<2, 16, 0, 0>>
    \o (IF c.no = "LE" THEN little \o magicle ELSE big \o magicbe)
    \o E32(c.no, 8)
    \o EncDir(c.no, SpoilIf(c, "note", NoteEntries(c.no)))
    \o ModeData

Build(c) ==
    LET o == c.o
        \* lengths
        nx == 2 + (IF c.note = "none" THEN 0 ELSE 1)
        lenX == IF c.exif THEN DirLen(nx) ELSE 0
        lenG == IF c.gps THEN DirLen(2) ELSE 0
        lenA == IF c.sub >= 2 THEN 4 * c.sub ELSE 0
        lenK == IF c.sub = 1 THEN 4 ELSE IF c.sub >= 2 THEN KidsLen(c.sub) ELSE 0
        raw == c.img \in {"raw", "both"}
        jpg == c.img \in {"jpeg", "both"}
        block == IF c.note = "nikon" THEN NoteBlock(c)
                 ELSE IF c.note = "other" THEN OtherNote ELSE <<>>
        \* offsets
        atX == 8
        atG == atX + lenX
        atA == atG + lenG
        atK == atA + lenA
        atMake == atK + lenK
        atTime == atMake + Len(MakeData)
        atJpeg == atTime + Len(TimeData(o))
        atStrips == atJpeg + Len(JpegData)
        atSO == atStrips + Len(Strips(c.ns))
        atSC == atSO + (IF c.ns >= 2 THEN 4 * c.ns ELSE 0)
        atTag == atSC + (IF c.ns >= 2 THEN 4 * c.ns ELSE 0)
        tagData == IF c.tag.type >= 0 /\ Len(TagData(o, c.tag)) > 4
                   THEN TagData(o, c.tag) ELSE <<>>
        tagEs == IF c.tag.type >= 0
                 THEN <<Ent(c.tag.id, c.tag.type, c.tag.count, TagField(o, c.tag, atTag))>>
                 ELSE <<>>
        atNote == atTag + Len(tagData)
        atR0 == atNote + Len(block)
        stripAt(i) == atStrips + StripLen * (i - 1)
        stripN(i) == IF c.over = i THEN StripLen + 4096 ELSE StripLen
        \* the root directory
        rootEs ==
            <<Ent(ImageWidth, Short, 1, InShort(o, 2))>>
            \o (IF c.len >= 0 THEN <<Ent(ImageLength, c.lt, 1, InNum(o, c.lt, c.len))>>
                ELSE <<>>)
            \o (IF c.photo >= 0 THEN <<Ent(Photometric, Short, 1, InShort(o, c.photo))>>
                ELSE <<>>)
            \o <<Ent(271, String, 6, E32(o, atMake))>>
            \o (IF raw
                THEN <<Ent(StripOffsets, Long, c.ns,
                           IF c.ns = 1 THEN E32(o, stripAt(1)) ELSE E32(o, atSO)),
                       Ent(RowsPerStrip, c.rt, 1, InNum(o, c.rt, c.rps)),
                       Ent(StripByteCounts, Long, c.ns,
                           IF c.ns = 1 THEN E32(o, stripN(1)) ELSE E32(o, atSC))>>
                ELSE <<>>)
            \o (IF c.sub >= 0
                THEN <<Ent(Nef, Long, c.sub,
                           IF c.sub = 1 THEN E32(o, atK) ELSE E32(o, atA))>>
                ELSE <<>>)
            \o (IF jpg
                THEN <<Ent(JpegFromRawStart, Long, 1, E32(o, atJpeg)),
                       Ent(JpegFromRawLength, Long, 1, E32(o, Len(JpegData)))>>
                ELSE <<>>)
            \o (IF c.tag.id < Exif THEN tagEs ELSE <<>>)
            \o (IF c.exif THEN <<Ent(Exif, Long, 1, E32(o, atX))>> ELSE <<>>)
            \o (IF c.gps THEN <<Ent(Gps, Long, 1, E32(o, atG))>> ELSE <<>>)
            \o (IF c.tag.id > Gps THEN tagEs ELSE <<>>)
        lenR0 == DirLen(Len(rootEs))
        atR1 == atR0 + lenR0 + 4
        root1Es == <<Ent(ImageWidth, Short, 1, InShort(o, 7))>>
        atEnd == IF c.next = "second" THEN atR1 + DirLen(1) + 4
                 ELSE IF c.next = "eof" THEN atR0 + lenR0
                 ELSE atR1
        \* the other directories
        exifEs ==
            <<Ent(33434, Rational, 1, E32(o, atTime)),
              Ent(34855, Short, 1, InShort(o, 100))>>
            \o (IF c.note = "none" THEN <<>>
                ELSE IF c.note = "short"
                THEN <<Ent(Note, Undef, Len(ShortNote), E32(o, atEnd))>>
                ELSE <<Ent(Note, Undef, Len(block), E32(o, atNote))>>)
        gpsEs ==
            <<Ent(0, Byte, 4, <<2, 3, 0, 0>>),
              Ent(1, String, 2, <<78, 0, 0, 0>>)>>
        kids ==
            IF c.sub = 1 THEN E16(o, 0) \o E16(o, atR0)
            ELSE IF c.sub >= 2
            THEN Concat([i \in 1..c.sub |->
                    EncDir(o, IF i = 2 THEN SpoilIf(c, "child", KidEntries(o, i))
                              ELSE KidEntries(o, i))])
            ELSE <<>>
        array ==
            IF c.sub >= 2
            THEN Concat([i \in 1..c.sub |-> E32(o, atK + KidsLen(i - 1))])
            ELSE <<>>
        pairs ==
            IF c.ns >= 2
            THEN Concat([i \in 1..c.ns |-> E32(o, stripAt(i))])
                 \o Concat([i \in 1..c.ns |-> E32(o, stripN(i))])
            ELSE <<>>
        full ==
            (IF o = "LE" THEN little \o magicle ELSE big \o magicbe)
            \o E32(o, atR0)
            \o (IF c.exif THEN EncDir(o, SpoilIf(c, "exif", exifEs)) ELSE <<>>)
            \o (IF c.gps THEN EncDir(o, SpoilIf(c, "gps", gpsEs)) ELSE <<>>)
            \o array \o kids
            \o MakeData \o TimeData(o) \o JpegData \o Strips(c.ns) \o pairs
            \o tagData
            \o block
            \o EncDir(o, SpoilIf(c, "root", rootEs))
            \o (IF c.next = "eof" THEN <<>>
                ELSE IF c.next = "self" THEN E32(o, atR0)
                ELSE IF c.next = "second"
                THEN E32(o, atR1) \o EncDir(o, root1Es) \o E32(o, 0)
                ELSE E32(o, 0))
            \o (IF c.note = "short" THEN ShortNote ELSE <<>>)
    IN  IF c.cut >= 0 THEN SubSeq(full, 1, Min(c.cut, Len(full))) ELSE full

\* The descriptions the buffers of the model are laid out from.
Base ==
    [o |-> "LE", exif |-> TRUE, gps |-> TRUE, note |-> "nikon", no |-> "BE",
     sub |-> 2, bad |-> "none", how |-> "swap", next |-> "zero", img |-> "none",
     len |-> -1, lt |-> Long, rt |-> Long, photo |-> -1, rps |-> 1, ns |-> 1,
     over |-> 0, cut |-> -1, calls |-> 1,
     tag |-> [id |-> 0, type |-> -1, count |-> 0, pat |-> 1]]

\* Every combination of the optional structures.
Shapes ==
    {[Base EXCEPT !.o = o, !.exif = n[1] # "absent", !.gps = g, !.sub = s,
                  !.note = IF n[1] = "absent" THEN "none" ELSE n[1],
                  !.no = n[2]] :
        o \in Orders, g \in BOOLEAN, s \in -1..MaxSub,
        n \in {<<"absent", "LE">>, <<"none", "LE">>, <<"other", "LE">>, <<"short", "LE">>,
               <<"nikon", "LE">>, <<"nikon", "BE">>}}

\* The ends of the chain of roots.
Chains ==
    {[Base EXCEPT !.o = o, !.next = x, !.sub = s] :
        o \in Orders, x \in {"eof", "second", "self"}, s \in {-1, 2}}

\* A directory with ids out of order.
Spoiled ==
    {[Base EXCEPT !.o = o, !.bad = d, !.how = h] :
        o \in Orders, d \in {"root", "exif", "gps", "note", "child"},
        h \in {"swap", "dup"}}

\* Every truncation of a buffer with two roots.
Cuts ==
    UNION {{[c EXCEPT !.cut = k] : k \in 0..(Len(Build(c)) - 1)} :
             c \in {[Base EXCEPT !.o = o, !.next = "second"] : o \in Orders}}

\* The image tags of a root.
Images ==
    {[Base EXCEPT !.o = o, !.img = i, !.sub = -1, !.gps = FALSE, !.note = "none",
                  !.len = l, !.rps = r, !.ns = n, !.over = v, !.lt = t[1],
                  !.rt = t[2]] :
        o \in Orders, i \in {"none", "jpeg", "raw", "both"}, l \in -1..MaxStrips + 1,
        r \in 0..2, n \in 1..MaxStrips, v \in 0..MaxStrips,
        t \in {Short, Long} \X {Short, Long}}

\* The photometric codes of the model: none (-1), the seven codes of the
\* program, and two codes it does not know.
PhotoCodes == {-1, ImgBlack, ImgWhite, ImgRGB, ImgPalette, ImgMask, ImgCMYK,
               ImgYCbCr, 7, 32803}

\* A root with one readable strip and a Photometric tag, with or without the
\* tags of an embedded JPEG.
Photos ==
    {[Base EXCEPT !.o = o, !.img = i, !.sub = -1, !.gps = FALSE, !.note = "none",
                  !.len = 1, !.photo = p, !.lt = t[1], !.rt = t[2]] :
        o \in Orders, i \in {"none", "jpeg", "raw", "both"}, p \in PhotoCodes,
        t \in {Short, Long} \X {Short, Long}}

\* The number of queries of the behaviours that make several of them.
MaxCalls == 3

\* A raw-striped root queried MaxCalls times.
Retries ==
    {[c EXCEPT !.calls = MaxCalls] : c \in {d \in Photos : d.img = "raw"}}

\* The largest count of the tag whose format and payload vary.
MaxCount == 3

\* The id of that tag when it is neither 0x2bc nor 0x9286.
PlainId == 1000

\* A root with a tag of every format, 0 and 13 that are no format among
\* them, inline or external, of small numbers or of numbers with the highest
\* bit set.
Typed ==
    {[Base EXCEPT !.o = o, !.exif = FALSE, !.gps = FALSE, !.note = "none", !.sub = -1,
                  !.tag = [id |-> g[1], type |-> g[2], count |-> n, pat |-> p]] :
        o \in Orders, n \in 0..MaxCount, p \in {1, 2},
        g \in ({PlainId} \X (0..13)) \cup ({Xmp, Comment} \X {String, Short, Undef})}

Inputs == Shapes \cup Chains \cup Spoiled \cup Cuts

----------------------------------------------------------------------------
(* Decode.                                                                 *)

NoRes == [op |-> "none"]

Start(ins) ==
    /\ input \in ins
    /\ buf = Build(input)
    /\ pc = "start"
    /\ order = "none"
    /\ pos = 0
    /\ offset = 0
    /\ files = <<>>
    /\ short = FALSE
    /\ err = "nil"
    /\ res = NoRes
    /\ seen = <<>>

Fail(e, s) ==
    /\ pc' = "failed"
    /\ err' = e
    /\ short' = (short \/ s)
    /\ files' = <<>>
    /\ UNCHANGED <<buf, input, order, pos, offset, res, seen>>

\* Lines 561-567: the order header, then the first offset of the chain.
HeaderRead(ro) ==
    IF ro.err # "nil" THEN Fail(ro.err, ro.short)
    ELSE IF Len(buf) < 8 THEN Fail(ShortErr(buf, 4), TRUE)
    ELSE /\ pc' = "loop"
         /\ order' = ro.order
         /\ offset' = Uint32(ro.order, Slice(buf, 4, 4))
         /\ pos' = 8
         /\ UNCHANGED <<buf, input, files, short, err, res, seen>>

DecodeHeader ==
    /\ pc = "start"
    /\ HeaderRead(readOrder(buf, 0))

\* Lines 571-580 for the result d of readDirectory: the root is appended and
\* the next offset of the chain is read where readDirectory left the reader;
\* io.EOF there ends the chain.
RootRead(d) ==
    IF d.err # "nil" THEN Fail(d.err, d.short)
    ELSE IF d.pos >= Len(buf)
    THEN /\ pc' = "done"
         /\ files' = Append(files, d.file)
         /\ pos' = d.pos
         /\ short' = TRUE    \* the offset field itself is missing
         /\ UNCHANGED <<buf, input, order, offset, err, res, seen>>
    ELSE IF d.pos + 4 > Len(buf) THEN Fail("ErrUnexpectedEOF", TRUE)
    ELSE /\ files' = Append(files, d.file)
         /\ offset' = Uint32(order, Slice(buf, d.pos, 4))
         /\ pos' = d.pos + 4
         /\ short' = (short \/ d.short)
         /\ UNCHANGED <<buf, input, pc, order, err, res, seen>>

\* One pass of the loop of lines 569-581: a root directory and its children,
\* then the next offset of the chain.
DecodeRoot ==
    /\ pc = "loop"
    /\ offset # 0
    /\ Len(files) < MaxRoots
    /\ RootRead(readDirectory(buf, order, offset, Len(files)))

\* Line 582: the chain ended with offset 0.
DecodeReturn ==
    /\ pc = "loop"
    /\ offset = 0
    /\ pc' = "done"
    /\ UNCHANGED <<buf, input, order, pos, offset, files, short, err, res, seen>>

\* Decode as a function of the buffer b: the forest it returns or its
\* error, the loop of lines 568-581 followed for at most MaxRoots roots.
RECURSIVE decodeRoots(_, _, _, _)

afterRoot(b, o, fs, d) ==
    IF d.err # "nil" THEN [err |-> d.err, files |-> <<>>]
    ELSE IF d.pos >= Len(b) THEN [err |-> "nil", files |-> Append(fs, d.file)]
    ELSE IF d.pos + 4 > Len(b) THEN [err |-> "ErrUnexpectedEOF", files |-> <<>>]
    ELSE decodeRoots(b, o, Uint32(o, Slice(b, d.pos, 4)), Append(fs, d.file))

decodeRoots(b, o, at, fs) ==
    IF at = 0 THEN [err |-> "nil", files |-> fs]
    ELSE IF Len(fs) >= MaxRoots THEN [err |-> "unfinished", files |-> fs]
    ELSE afterRoot(b, o, fs, readDirectory(b, o, at, Len(fs)))

afterOrder(b, ro) ==
    IF ro.err # "nil" THEN [err |-> ro.err, files |-> <<>>]
    ELSE IF Len(b) < 8 THEN [err |-> ShortErr(b, 4), files |-> <<>>]
    ELSE decodeRoots(b, ro.order, Uint32(ro.order, Slice(b, 4, 4)), <<>>)

Decode(b) == afterOrder(b, readOrder(b, 0))

----------------------------------------------------------------------------
(* The query surface of a File.                                            *)

ZeroTag ==
    [Id |-> 0, Type |-> 0, Count |-> 0, Offset |-> 0, Raw |-> <<>>,
     family |-> 0, order |-> "none"]

Paths(fs) ==
    {<<i>> : i \in 0..(Len(fs) - 1)}
    \cup UNION {{<<i, j>> : j \in 0..(Len(fs[i + 1].Files) - 1)} : i \in 0..(Len(fs) - 1)}

FileAt(fs, p) == IF Len(p) = 1 THEN fs[p[1] + 1] ELSE fs[p[1] + 1].Files[p[2] + 1]

TagsFor(f, family) ==
    IF family = Exif THEN f.exif
    ELSE IF family = Note THEN f.notes
    ELSE IF family \in {Tiff, Nef} THEN f.tiff
    ELSE IF family = Gps THEN f.gps
    ELSE <<>>

GetTag(f, id, origin) ==
    IF origin \notin {Tiff, Nef, Exif, Note} THEN [err |-> "not found", tag |-> ZeroTag]
    ELSE LET tags == IF origin \in {Tiff, Nef} THEN f.tiff
                     ELSE IF origin = Exif THEN f.exif
                     ELSE f.notes
         IN  IF Missing(tags, id) THEN [err |-> "not found", tag |-> ZeroTag]
             ELSE [err |-> "nil", tag |-> Found(tags, id)]

Uint(t) ==
    IF t.Type = Byte THEN t.Raw[1]
    ELSE IF t.Type = Short THEN Uint16(t.order, t.Raw)
    ELSE IF t.Type = Long THEN Uint32(t.order, t.Raw)
    ELSE 0

----------------------------------------------------------------------------
(* Tag.Values and the decoders of the formats.  A string of digits is a    *)
(* TLA+ string; the string of a String tag is kept as its bytes.           *)

\* strconv.FormatUint(x, 10) for the number x = hi * 65536 + lo, both halves
\* below 65536: the digits of x, found by dividing the pair by 10.
RECURSIVE FormatPair(_, _)
FormatPair(hi, lo) ==
    IF hi = 0 THEN ToString(lo)
    ELSE FormatPair(hi \div 10, ((hi % 10) * 65536 + lo) \div 10)
         \o ToString(((hi % 10) * 65536 + lo) % 10)

\* The digits of the uint32 whose four bytes are given least significant first.
FormatLE(bs) == FormatPair(bs[3] + 256 * bs[4], bs[1] + 256 * bs[2])

FormatUint32(o, bs) ==
    FormatLE(IF o = "LE" THEN SubSeq(bs, 1, 4) ELSE Reverse(SubSeq(bs, 1, 4)))

\* strconv.FormatInt(x, 10) for an integer TLC computes with.
FormatInt(x) == ToString(x)

\* The int16 and the int32 of the first bytes of bs.
Int16(o, bs) ==
    IF Uint16(o, bs) >= 32768 THEN Uint16(o, bs) - 65536 ELSE Uint16(o, bs)

IntLE(bs) ==
    bs[1] + 256 * bs[2] + 65536 * bs[3]
    + 16777216 * (IF bs[4] >= 128 THEN bs[4] - 256 ELSE bs[4])

Int32(o, bs) ==
    IntLE(IF o = "LE" THEN SubSeq(bs, 1, 4) ELSE Reverse(SubSeq(bs, 1, 4)))

\* binary.Read of w bytes from a bytes.Reader over raw at position at, its
\* error dropped: the bytes read, or zeros when fewer than w are left.
ReadOrZero(raw, at, w) ==
    IF at + w <= Len(raw) THEN SubSeq(raw, at + 1, at + w) ELSE [k \in 1..w |-> 0]

\* The bytes of a float, most significant first: what strconv.FormatFloat
\* is given, kept as the bits of the number.
FormatFloat(o, bs) == <<"float", IF o = "BE" THEN bs ELSE Reverse(bs)>>

decodeShort(t) ==
    [i \in 1..t.Count |-> FormatInt(Uint16(t.order, SubSeq(t.Raw, 2 * i - 1, 2 * i)))]

decodeSignedShort(t) ==
    [i \in 1..t.Count |-> FormatInt(Int16(t.order, ReadOrZero(t.Raw, 2 * (i - 1), 2)))]

decodeLong(t) ==
    [i \in 1..t.Count |-> FormatUint32(t.order, SubSeq(t.Raw, 4 * i - 3, 4 * i))]

decodeSignedLong(t) ==
    [i \in 1..t.Count |-> FormatInt(Int32(t.order, ReadOrZero(t.Raw, 4 * (i - 1), 4)))]

decodeByte(t) == [i \in 1..t.Count |-> FormatInt(t.Raw[i])]

decodeRational(t) ==
    [i \in 1..t.Count |->
        FormatUint32(t.order, ReadOrZero(t.Raw, 8 * (i - 1), 4)) \o "/"
        \o FormatUint32(t.order, ReadOrZero(t.Raw, 8 * (i - 1) + 4, 4))]

decodeSignedRational(t) ==
    [i \in 1..t.Count |->
        FormatInt(Int32(t.order, ReadOrZero(t.Raw, 8 * (i - 1), 4))) \o "/"
        \o FormatInt(Int32(t.order, ReadOrZero(t.Raw, 8 * (i - 1) + 4, 4)))]

decodeFloat(t) ==
    [i \in 1..t.Count |-> FormatFloat(t.order, ReadOrZero(t.Raw, 4 * (i - 1), 4))]

decodeDouble(t) ==
    [i \in 1..t.Count |-> FormatFloat(t.order, ReadOrZero(t.Raw, 8 * (i - 1), 8))]

\* bytes.TrimRight(b, "\x00") and bytes.TrimSpace(b).
RECURSIVE TrimRight(_, _)
TrimRight(b, cut) ==
    IF b # <<>> /\ b[Len(b)] \in cut THEN TrimRight(SubSeq(b, 1, Len(b) - 1), cut) ELSE b

RECURSIVE TrimLeft(_, _)
TrimLeft(b, cut) == IF b # <<>> /\ b[1] \in cut THEN TrimLeft(Tail(b), cut) ELSE b

Spaces == {9, 10, 11, 12, 13, 32}

TrimSpace(b) == TrimLeft(TrimRight(b, Spaces), Spaces)

\* Values: the cases SByte and Undef are empty and return no string and no
\* error.
Values(t) ==
    IF t.Id \in {Xmp, Comment} THEN [err |-> "nil", val |-> <<TrimSpace(t.Raw)>>]
    ELSE IF t.Type = String
    THEN [err |-> "nil", val |-> <<TrimSpace(TrimRight(t.Raw, {0}))>>]
    ELSE IF t.Type = Long THEN [err |-> "nil", val |-> decodeLong(t)]
    ELSE IF t.Type = SLong THEN [err |-> "nil", val |-> decodeSignedLong(t)]
    ELSE IF t.Type = Short THEN [err |-> "nil", val |-> decodeShort(t)]
    ELSE IF t.Type = SShort THEN [err |-> "nil", val |-> decodeSignedShort(t)]
    ELSE IF t.Type = Byte THEN [err |-> "nil", val |-> decodeByte(t)]
    ELSE IF t.Type \in {SByte, Undef} THEN [err |-> "nil", val |-> <<>>]
    ELSE IF t.Type = Rational THEN [err |-> "nil", val |-> decodeRational(t)]
    ELSE IF t.Type = SRational THEN [err |-> "nil", val |-> decodeSignedRational(t)]
    ELSE IF t.Type = Float THEN [err |-> "nil", val |-> decodeFloat(t)]
    ELSE IF t.Type = Double THEN [err |-> "nil", val |-> decodeDouble(t)]
    ELSE [err |-> "unknown format", val |-> <<>>]

Has(f, id) == ~Missing(f.tiff, id)

IsJpeg(f) == Has(f, JpegFromRawStart) /\ Has(f, JpegFromRawLength)

IsRaw(f) == Has(f, StripOffsets) /\ Has(f, RowsPerStrip) /\ Has(f, StripByteCounts)

\* File.get: the zero Tag when the id is missing (its error is dropped by
\* every caller of this section).
get(f, id) == IF Missing(f.tiff, id) THEN ZeroTag ELSE Found(f.tiff, id)

processJpeg(b, f) ==
    LET start == get(f, JpegFromRawStart).Offset
        length == get(f, JpegFromRawLength).Offset
        got == Slice(b, start, length)
    IN  IF Len(got) < length
        THEN [err |-> IF got = <<>> THEN "EOF" ELSE "ErrUnexpectedEOF", val |-> <<>>]
        ELSE [err |-> "nil", val |-> got]

\* The error of binary.Read of the i-th (from 0) uint32 of raw, "nil" if none.
ReadErr(raw, i) ==
    IF Len(raw) >= 4 * (i + 1) THEN "nil"
    ELSE IF Len(raw) <= 4 * i THEN "EOF" ELSE "ErrUnexpectedEOF"

\* The loop of lines 511-528 from index i on.
RECURSIVE readStrips(_, _, _, _, _, _)
readStrips(b, off, cnt, block, i, img) ==
    IF i >= block THEN [err |-> "nil", val |-> img]
    ELSE IF ReadErr(off.Raw, i) # "nil" THEN [err |-> ReadErr(off.Raw, i), val |-> <<>>]
    ELSE IF ReadErr(cnt.Raw, i) # "nil" THEN [err |-> ReadErr(cnt.Raw, i), val |-> <<>>]
    ELSE LET p == Uint32(off.order, SubSeq(off.Raw, 4 * i + 1, 4 * i + 4))
             n == Uint32(cnt.order, SubSeq(cnt.Raw, 4 * i + 1, 4 * i + 4))
         IN  readStrips(b, off, cnt, block, i + 1, img \o Slice(b, p, n))

\* The number of strips processRaw reads (lines 505-508), for a divisor # 0.
Blocks(length, strip) ==
    (length \div strip) + (IF length % strip # 0 THEN 1 ELSE 0)

processRaw(b, f) ==
    LET strip == get(f, RowsPerStrip)
        off == get(f, StripOffsets)
        cnt == get(f, StripByteCounts)
        length == get(f, ImageLength)
    IN  IF strip.Offset = 0
        THEN [err |-> "panic: integer divide by zero", val |-> <<>>]
        ELSE readStrips(b, off, cnt, Blocks(length.Offset, strip.Offset), 0, <<>>)

Bytes(b, f) ==
    IF IsJpeg(f) THEN [path |-> "jpeg"] @@ processJpeg(b, f)
    ELSE IF IsRaw(f) THEN [path |-> "raw"] @@ processRaw(b, f)
    ELSE [path |-> "none", err |-> "unknown image", val |-> <<>>]

\* decodeRaw: the picture is kept as its kind, its rectangle and the bytes it
\* is drawn from.
decodeRaw(b, f) ==
    LET typ == Uint(get(f, Photometric))
        w == get(f, ImageWidth).Offset
        h == get(f, ImageLength).Offset
        raw == processRaw(b, f)
        pic(kind, data) == [kind |-> kind, w |-> w, h |-> h, data |-> data]
    IN  IF raw.err # "nil" THEN [err |-> raw.err, val |-> <<>>]
        ELSE IF typ \in {ImgBlack, ImgWhite}
        THEN [err |-> "nil", val |-> pic(IF typ = ImgWhite THEN "white" ELSE "black", raw.val)]
        ELSE IF typ = ImgRGB THEN [err |-> "nil", val |-> pic("rgb", raw.val)]
        ELSE IF typ = ImgCMYK THEN [err |-> "nil", val |-> pic("cmyk", <<>>)]
        ELSE [err |-> "unknown format", val |-> <<>>]

\* decodeJpeg: decodes tells whether image.Decode accepts the bytes.
decodeJpeg(b, f, decodes) ==
    LET raw == processJpeg(b, f)
    IN  IF raw.err # "nil" THEN [err |-> raw.err, val |-> <<>>]
        ELSE IF decodes THEN [err |-> "nil", val |-> [kind |-> "jpeg", data |-> raw.val]]
        ELSE [err |-> "image: unknown format", val |-> <<>>]

\* Image with the cases of lines 375 and 377 exchanged.
ImageRawFirst(b, f, decodes) ==
    IF IsRaw(f) THEN [path |-> "raw"] @@ decodeRaw(b, f)
    ELSE IF IsJpeg(f) THEN [path |-> "jpeg"] @@ decodeJpeg(b, f, decodes)
    ELSE [path |-> "none", err |-> "unknown image", val |-> <<>>]

Image(b, f, decodes) ==
    IF IsJpeg(f) THEN [path |-> "jpeg"] @@ decodeJpeg(b, f, decodes)
    ELSE IF IsRaw(f) THEN [path |-> "raw"] @@ decodeRaw(b, f)
    ELSE [path |-> "none", err |-> "unknown image", val |-> <<>>]

\* IsSupported with the embedded JPEG tested first.
IsSupportedJpegFirst(f) ==
    IF IsJpeg(f) \/ Missing(f.tiff, Photometric) THEN TRUE
    ELSE Uint(get(f, Photometric)) \in
            {ImgBlack, ImgWhite, ImgRGB, ImgPalette, ImgMask, ImgCMYK, ImgYCbCr}

\* IsSupported: a File without tag 0x106 is supported, one with it is
\* supported when the value of the tag is one of the seven codes.
IsSupported(f) ==
    IF Missing(f.tiff, Photometric) THEN TRUE
    ELSE Uint(get(f, Photometric)) \in
            {ImgBlack, ImgWhite, ImgRGB, ImgPalette, ImgMask, ImgCMYK, ImgYCbCr}

RawType(typ) ==
    IF typ \in {ImgBlack, ImgWhite} THEN "raw/gray"
    ELSE IF typ = ImgRGB THEN "raw/rgb"
    ELSE IF typ = ImgPalette THEN "raw/palette"
    ELSE IF typ = ImgMask THEN "raw/mask"
    ELSE IF typ = ImgCMYK THEN "raw/cmyk"
    ELSE IF typ = ImgYCbCr THEN "raw/ycbcr"
    ELSE "unsupported"

ImageType(f) ==
    IF Missing(f.tiff, Photometric) THEN "jpeg"
    ELSE RawType(Uint(get(f, Photometric)))

\* The ids and families the queries are made with.
QueryIds ==
    {0, 1, 2, 5, 256, 257, 271, 330, 33434, 34855, Exif, Gps, Note}

Families == {Tiff, Nef, Exif, Note, Gps, 1}

\* The caller makes input.calls queries on the finished forest, one after
\* the other.
Query(r) ==
    /\ pc = "done"
    /\ Len(seen) + (IF res = NoRes THEN 0 ELSE 1) < input.calls
    /\ res' = r
    /\ seen' = IF res = NoRes THEN seen ELSE Append(seen, res)
    /\ UNCHANGED <<buf, input, pc, order, pos, offset, files, short, err>>

CallTagsFor ==
    \E p \in Paths(files), fam \in Families :
        Query([op |-> "TagsFor", file |-> p, family |-> fam,
               tags |-> TagsFor(FileAt(files, p), fam)])

CallGetTag ==
    \E p \in Paths(files), id \in QueryIds, fam \in Families :
        Query([op |-> "GetTag", file |-> p, id |-> id, family |-> fam]
              @@ GetTag(FileAt(files, p), id, fam))

CallBytes ==
    \E p \in Paths(files) :
        Query([op |-> "Bytes", file |-> p] @@ Bytes(buf, FileAt(files, p)))

CallImage ==
    \E p \in Paths(files), decodes \in BOOLEAN :
        Query([op |-> "Image", file |-> p] @@ Image(buf, FileAt(files, p), decodes))

CallIsSupported ==
    \E p \in Paths(files) :
        Query([op |-> "IsSupported", file |-> p, val |-> IsSupported(FileAt(files, p))])

CallImageType ==
    \E p \in Paths(files) :
        Query([op |-> "ImageType", file |-> p, val |-> ImageType(FileAt(files, p))])

\* The tags of the forest: the file, the family and the index in the vector.
TagRefs ==
    {r \in Paths(files) \X {Tiff, Exif, Gps, Note} \X (1..16) :
        r[3] <= Len(TagsFor(FileAt(files, r[1]), r[2]))}

TagAt(r) == TagsFor(FileAt(files, r[1]), r[2])[r[3]]

CallValues ==
    \E r \in TagRefs :
        Query([op |-> "Values", file |-> r[1], family |-> r[2], tag |-> TagAt(r)]
              @@ Values(TagAt(r)))

CallUint ==
    \E r \in TagRefs :
        Query([op |-> "Uint", file |-> r[1], family |-> r[2], tag |-> TagAt(r),
               val |-> Uint(TagAt(r))])

\* Decode on the buffers that vary the structure of the forest, then a query
\* for tags.
Init == Start(Inputs)

Next ==
    \/ DecodeHeader
    \/ DecodeRoot
    \/ DecodeReturn
    \/ CallTagsFor
    \/ CallGetTag

Spec == Init /\ [][Next]_vars

\* Decode on the buffers that vary the image tags of a root, then a query for
\* the image.
InitImage == Start(Images \cup Photos \cup Retries)

NextImage ==
    \/ DecodeHeader
    \/ DecodeRoot
    \/ DecodeReturn
    \/ CallBytes
    \/ CallImage
    \/ CallIsSupported
    \/ CallImageType

SpecImage == InitImage /\ [][NextImage]_vars

\* Decode on the buffers that vary the formats of the tags, then a query for
\* the values of a tag.
InitValues == Start(Typed \cup Shapes)

NextValues ==
    \/ DecodeHeader
    \/ DecodeRoot
    \/ DecodeReturn
    \/ CallValues
    \/ CallUint

SpecValues == InitValues /\ [][NextValues]_vars

----------------------------------------------------------------------------
(* Properties.                                                             *)

Terminal == pc \in {"done", "failed"}

AllFiles == {FileAt(files, p) : p \in Paths(files)}

Vectors(f) == {f.tiff, f.exif, f.gps, f.notes}

Increasing(tags) == \A i \in 1..(Len(tags) - 1) : tags[i].Id < tags[i + 1].Id

\* The descriptor k (from 1) of the directory at offset at, as it lies in the
\* buffer, and the fields of it.
Desc(at, k) == Slice(buf, at + 2 + 12 * (k - 1), 12)
DescVal(at, k) == SubSeq(Desc(at, k), 9, 12)

\* Where the directories of the first root lie, read from the buffer.
RootAt == Uint32(order, Slice(buf, 4, 4))
ExifAt(f) == Uint32(order, Found(f.tiff, Exif).Raw)
NoteTagAt(f) == Found(f.exif, Note).Offset
NoteOrder(f) == IF Slice(buf, NoteTagAt(f) + 10, 2) = little THEN "LE" ELSE "BE"
NoteDirAt(f) ==
    NoteTagAt(f) + 10 + Uint32(NoteOrder(f), Slice(buf, NoteTagAt(f) + 14, 4))
IsNikon(f) ==
    /\ ~Missing(f.exif, Note)
    /\ Slice(buf, NoteTagAt(f), 6) = nikon

\* C1: after a successful Decode the tag ids of every vector of every File,
\* roots and children, increase strictly; and a buffer one of whose
\* directories (root, EXIF, GPS, MakerNote or sub-IFD) has an id not above
\* the id before it, exchanged or repeated, makes Decode fail.
C1_IdsIncrease ==
    /\ pc = "done" => \A f \in AllFiles : \A v \in Vectors(f) : Increasing(v)
    /\ (Terminal /\ input.bad # "none" /\ input.cut < 0)
          => (pc = "failed" /\ err = "tags not sorted properly" /\ files = <<>>)

C1_Witness ==
    /\ pc = "done"
    /\ \E f \in AllFiles :
          /\ Len(f.Index) = 2
          /\ \A v \in {f.tiff, f.exif, f.notes} : Len(v) >= 2

\* C2: Decode never returns a forest when one of its reads ran past the end
\* of the buffer.
C2_NoForestAfterShortRead == pc = "done" => ~short

\* Whether tag k of the vector tags, read from the directory at offset at
\* with rebase delta, holds the bytes C3 states.
RawAsStated(tags, at, delta, k) ==
    IF FormatSize(tags[k].Type) * tags[k].Count <= 4
    THEN tags[k].Raw = DescVal(at, k)
    ELSE tags[k].Raw = Slice(buf, Uint32(tags[k].order, DescVal(at, k)) + delta,
                             FormatSize(tags[k].Type) * tags[k].Count)

\* C3: the raw bytes of every tag are the value field of its descriptor when
\* its size is at most 4, whatever the rebase, and else the size bytes at
\* value field + rebase; stated for the TIFF, EXIF and MakerNote tags of the
\* first root.
C3_RawBytes ==
    (pc = "done" /\ Len(files) >= 1) =>
        LET f == files[1]
        IN  /\ \A k \in 1..Len(f.tiff) : RawAsStated(f.tiff, RootAt, 0, k)
            /\ ~Missing(f.tiff, Exif) =>
                  \A k \in 1..Len(f.exif) : RawAsStated(f.exif, ExifAt(f), 0, k)
            /\ IsNikon(f) =>
                  \A k \in 1..Len(f.notes) :
                      RawAsStated(f.notes, NoteDirAt(f), NoteTagAt(f) + 10, k)

\* C4: a root with tag 0x014a of count n has n children, and child i is the
\* directory at the i-th uint32 of the payload of that tag.
C4_SubIfdOffsets ==
    pc = "done" =>
        \A r \in 1..Len(files) :
            ~Missing(files[r].tiff, Nef) =>
                LET t == Found(files[r].tiff, Nef)
                IN  /\ Len(files[r].Files) = t.Count
                    /\ \A i \in 1..Len(files[r].Files) :
                          files[r].Files[i].tiff =
                              readTags(buf, order,
                                       Uint32(order, SubSeq(t.Raw, 4 * i - 3, 4 * i)),
                                       0, Tiff).tags

\* C5: the MakerNote directory of a Nikon block is read in the byte order its
\* own header declares at tag offset + 10, its entries lie at tag offset +
\* 10 + internal offset, and the external payloads of its tags lie at value
\* field + tag offset + 10.
C5_MakerNote ==
    pc = "done" =>
        \A r \in 1..Len(files) :
            IsNikon(files[r]) =>
                LET f == files[r]
                    no == NoteOrder(f)
                    at == NoteDirAt(f)
                IN  /\ Len(f.notes) = Uint16(no, Slice(buf, at, 2))
                    /\ \A k \in 1..Len(f.notes) :
                          /\ f.notes[k].order = no
                          /\ f.notes[k].family = Note
                          /\ f.notes[k].Id = Uint16(no, SubSeq(Desc(at, k), 1, 2))
                          /\ f.notes[k].Type = Uint16(no, SubSeq(Desc(at, k), 3, 4))
                          /\ f.notes[k].Count = Uint32(no, SubSeq(Desc(at, k), 5, 8))
                          /\ TagSize(f.notes[k].Type, f.notes[k].Count) > 4 =>
                                f.notes[k].Raw =
                                    Slice(buf,
                                          Uint32(no, DescVal(at, k)) + NoteTagAt(f) + 10,
                                          TagSize(f.notes[k].Type, f.notes[k].Count))

C5_Witness ==
    /\ pc = "done"
    /\ \E r \in 1..Len(files) :
          /\ IsNikon(files[r])
          /\ NoteOrder(files[r]) # order
          /\ \E k \in 1..Len(files[r].notes) :
                TagSize(files[r].notes[k].Type, files[r].notes[k].Count) > 4

\* Whether some tag of the vector has the id, by looking at every tag.
Holds(tags, id) == \E k \in 1..Len(tags) : tags[k].Id = id

\* A buffer whose structures are all laid out as the format says: no
\* truncation, ids in order, a chain of roots that ends with offset 0.
WellFormed == input.cut < 0 /\ input.bad = "none" /\ input.next \in {"zero", "second"}

\* C6: on an otherwise valid buffer a missing optional structure is no error:
\* Decode succeeds, and a root without 0x8769 has no EXIF tags, without
\* 0x8825 no GPS tags, without 0x014a no children, an EXIF directory without
\* 0x927c, or with a 0x927c block that does not start with "Nikon\0", no
\* MakerNote tags.  (Stated for the buffers without a tag 0x014a of count 1,
\* which C4 is about.)
C6_MissingIsNoError ==
    (Terminal /\ WellFormed /\ input.sub # 1) =>
        /\ pc = "done"
        /\ \A r \in 1..Len(files) :
              LET f == files[r]
              IN  /\ ~Holds(f.tiff, Exif) => f.exif = <<>>
                  /\ ~Holds(f.tiff, Gps) => f.gps = <<>>
                  /\ ~Holds(f.tiff, Nef) => f.Files = <<>>
                  /\ ~Holds(f.exif, Note) => f.notes = <<>>
                  /\ (Holds(f.exif, Note) /\ ~IsNikon(f)) => f.notes = <<>>

\* C7: every child of a root carries the EXIF and MakerNote vectors of the
\* root and the index path [root, child], and the root keeps the vectors it
\* read.
C7_ChildrenShare ==
    pc = "done" =>
        \A r \in 1..Len(files) :
            /\ files[r].Index = <<r - 1>>
            /\ files[r].exif = exifTags(buf, order, files[r].tiff).tags
            /\ files[r].notes = notesTags(buf, files[r].exif).tags
            /\ \A j \in 1..Len(files[r].Files) :
                  /\ files[r].Files[j].exif = files[r].exif
                  /\ files[r].Files[j].notes = files[r].notes
                  /\ files[r].Files[j].Index = <<r - 1, j - 1>>

C7_Witness ==
    /\ pc = "done"
    /\ \E r \in 1..Len(files) :
          /\ Len(files[r].Files) >= 2
          /\ files[r].exif # <<>>
          /\ files[r].notes # <<>>

\* C8: for the families TIFF, EXIF, GPS and MakerNote, GetTag(id, family)
\* returns the tag of that id exactly when TagsFor(family) holds one, and
\* NotFound otherwise.
C8_GetTagAgreesWithTagsFor ==
    (res.op = "GetTag" /\ res.family \in {Tiff, Exif, Gps, Note}) =>
        LET tags == TagsFor(FileAt(files, res.file), res.family)
        IN  /\ res.err = "nil" <=> Holds(tags, res.id)
            /\ res.err = "nil" =>
                  (res.tag.Id = res.id /\ \E k \in 1..Len(tags) : tags[k] = res.tag)
            /\ res.err # "nil" => res.err = "not found"

\* C9: Image() and Bytes() take the embedded-JPEG path for a File whose TIFF
\* tags hold both 0x201 and 0x202, whatever else they hold; else the raw
\* path for a File that holds 0x111, 0x116 and 0x117; else both return the
\* NoImage error.
C9_Classification ==
    res.op \in {"Bytes", "Image"} =>
        LET t == FileAt(files, res.file).tiff
            jpeg == Holds(t, JpegFromRawStart) /\ Holds(t, JpegFromRawLength)
            raw == Holds(t, StripOffsets) /\ Holds(t, RowsPerStrip)
                   /\ Holds(t, StripByteCounts)
        IN  /\ jpeg => res.path = "jpeg"
            /\ (~jpeg /\ raw) => res.path = "raw"
            /\ (~jpeg /\ ~raw) => (res.path = "none" /\ res.err = "unknown image")

C9_Witness ==
    /\ res.op = "Image"
    /\ res.path = "jpeg"
    /\ Holds(FileAt(files, res.file).tiff, StripOffsets)
    /\ Holds(FileAt(files, res.file).tiff, RowsPerStrip)
    /\ Holds(FileAt(files, res.file).tiff, StripByteCounts)

\* The i-th (from 0) uint32 of the payload of a tag.
Word(t, i) == Uint32(t.order, SubSeq(t.Raw, 4 * i + 1, 4 * i + 4))

RECURSIVE Sum(_, _)
Sum(t, n) == IF n = 0 THEN 0 ELSE Sum(t, n - 1) + Word(t, n - 1)

\* C10: Bytes() of a raw-striped File returns the blockCount complete ranges
\* [StripOffsets[i], StripOffsets[i] + StripByteCounts[i]) one after the
\* other, or fails: it returns no buffer when a range passes the end of the
\* buffer or when there are fewer than blockCount pairs.
C10_StripsCompleteOrError ==
    (res.op = "Bytes" /\ res.path = "raw" /\ res.err = "nil") =>
        LET f == FileAt(files, res.file)
            off == get(f, StripOffsets)
            cnt == get(f, StripByteCounts)
            n == Blocks(get(f, ImageLength).Offset, get(f, RowsPerStrip).Offset)
        IN  /\ Len(off.Raw) >= 4 * n
            /\ Len(cnt.Raw) >= 4 * n
            /\ \A i \in 0..(n - 1) : Word(off, i) + Word(cnt, i) <= Len(buf)
            /\ Len(res.val) = Sum(cnt, n)

\* Whether the TIFF tags t hold the tags of an embedded JPEG, of raw strips.
HoldsJpeg(t) == Holds(t, JpegFromRawStart) /\ Holds(t, JpegFromRawLength)
HoldsRaw(t) ==
    Holds(t, StripOffsets) /\ Holds(t, RowsPerStrip) /\ Holds(t, StripByteCounts)

\* The value of the tag of the id in the TIFF tags t, by looking at every tag.
ValueOf(t, id) == Uint(CHOOSE x \in {t[k] : k \in 1..Len(t)} : x.Id = id)

\* C11: a File that holds both 0x201 and 0x202 reports IsSupported() = true
\* and ImageType() = "jpeg", whatever its other tags, a Photometric tag of
\* any value among them; a raw-striped File with a Photometric tag reports
\* IsSupported() = true exactly when the code is one of Black, White, RGB,
\* Palette, Mask, CMYK, YCbCr.
C11_Supported ==
    res.op \in {"IsSupported", "ImageType"} =>
        LET t == FileAt(files, res.file).tiff
        IN  /\ (HoldsJpeg(t) /\ res.op = "IsSupported") => res.val = TRUE
            /\ (HoldsJpeg(t) /\ res.op = "ImageType") => res.val = "jpeg"
            /\ (~HoldsJpeg(t) /\ HoldsRaw(t) /\ Holds(t, Photometric)
                    /\ res.op = "IsSupported") =>
                  (res.val = TRUE <=> ValueOf(t, Photometric) \in 0..6)

\* Whether the strips of the raw-striped File f can be read: its TIFF tags
\* hold 0x101 and a RowsPerStrip above 0, there are ceil(ImageLength /
\* RowsPerStrip) pairs of offset and length, and every range lies within the
\* buffer.
Readable(f) ==
    /\ Holds(f.tiff, ImageLength)
    /\ ValueOf(f.tiff, RowsPerStrip) > 0
    /\ LET n == Blocks(ValueOf(f.tiff, ImageLength), ValueOf(f.tiff, RowsPerStrip))
           off == get(f, StripOffsets)
           cnt == get(f, StripByteCounts)
       IN  /\ n <= off.Count
           /\ n <= cnt.Count
           /\ \A i \in 0..(n - 1) : Word(off, i) + Word(cnt, i) <= Len(buf)

\* The photometric codes decodeRaw has a rule for.
Decodable == {ImgBlack, ImgWhite, ImgRGB, ImgCMYK}

\* C12: for a raw-striped File without the tags of an embedded JPEG whose
\* strips are readable, Image() succeeds when Photometric is 2 and fails with
\* UnsupportedFormat when Photometric is a code without a decode rule; in the
\* failing case Bytes() succeeds, and Bytes() after the failed Image()
\* returns what Bytes() returned before it.
C12_RawImage ==
    res.op \in {"Bytes", "Image"} =>
        LET f == FileAt(files, res.file)
            n == Len(seen)
        IN  (HoldsRaw(f.tiff) /\ ~HoldsJpeg(f.tiff) /\ Readable(f)
                /\ Holds(f.tiff, Photometric)) =>
              /\ (res.op = "Image" /\ ValueOf(f.tiff, Photometric) = ImgRGB) =>
                    (res.err = "nil" /\ res.val.kind = "rgb")
              /\ (res.op = "Image" /\ ValueOf(f.tiff, Photometric) \notin Decodable) =>
                    res.err = "unknown format"
              /\ (res.op = "Bytes" /\ ValueOf(f.tiff, Photometric) \notin Decodable) =>
                    res.err = "nil"
              /\ (res.op = "Bytes" /\ n >= 2 /\ seen[n].op = "Image"
                      /\ seen[n].file = res.file /\ seen[n].err = "unknown format"
                      /\ seen[n - 1].op = "Bytes" /\ seen[n - 1].file = res.file) =>
                    res = seen[n - 1]

\* The 12 formats.
Formats == Byte..Double

\* C13: Values() fails with UnsupportedType and returns no string for every
\* tag whose id is neither 0x2bc nor 0x9286 and whose format is Undefined or
\* is none of the 12 formats; it returns no empty success for such a tag.
C13_UnsupportedType ==
    (res.op = "Values" /\ res.tag.Id \notin {Xmp, Comment}
        /\ (res.tag.Type = Undef \/ res.tag.Type \notin Formats)) =>
      (res.err = "unknown format" /\ res.val = <<>>)

\* The decimal digits of the number hi * 65536 + lo, one digit at a time.
Digit(d) == <<"0", "1", "2", "3", "4", "5", "6", "7", "8", "9">>[d + 1]

RECURSIVE Decimal(_, _)
Decimal(hi, lo) ==
    LET low == (hi % 10) * 65536 + lo
    IN  IF hi = 0 /\ lo < 10 THEN Digit(lo)
        ELSE Decimal(hi \div 10, low \div 10) \o Digit(low % 10)

\* The number of the bytes bs, most significant first and at most four,
\* as the pair of its halves.
High(bs) == IF Len(bs) = 4 THEN 256 * bs[1] + bs[2] ELSE 0
Low(bs) ==
    IF Len(bs) = 1 THEN bs[1] ELSE 256 * bs[Len(bs) - 1] + bs[Len(bs)]

\* The two's complement of the bytes bs, most significant first.
Negated(bs) == Reverse(AddLE([k \in 1..Len(bs) |-> 255 - Reverse(bs)[k]], 1))

\* The decimal rendering of the bytes bs, most significant first, read as an
\* unsigned or as a signed number of their width.
Rendering(bs, signed) ==
    IF signed /\ bs[1] >= 128
    THEN "-" \o Decimal(High(Negated(bs)), Low(Negated(bs)))
    ELSE Decimal(High(bs), Low(bs))

\* The w bytes at offset at of the raw bytes of the tag t, most significant
\* first.
Element(t, at, w) ==
    IF t.order = "BE" THEN SubSeq(t.Raw, at + 1, at + w)
    ELSE Reverse(SubSeq(t.Raw, at + 1, at + w))

\* C14: for every tag of format Byte, SByte, Short, SShort, Long, SLong,
\* Rational or SRational and count n whose id is neither 0x2bc nor 0x9286,
\* Values() returns n strings, and string i is the decimal rendering of
\* element i of the raw bytes in the byte order of the tag, at the width and
\* signedness of the format; for Rational and SRational it is the two 32-bit
\* components of pair i joined by "/", neither reduced nor divided.
C14_Renderings ==
    (res.op = "Values" /\ res.tag.Id \notin {Xmp, Comment}
        /\ res.tag.Type \in {Byte, SByte, Short, SShort, Long, SLong, Rational,
                             SRational}) =>
      LET t == res.tag
          w == CompWidth(t.Type)
          signed == t.Type \in {SByte, SShort, SLong, SRational}
      IN  /\ res.err = "nil"
          /\ Len(res.val) = t.Count
          /\ \A i \in 1..Len(res.val) :
                res.val[i] =
                    IF t.Type \in {Rational, SRational}
                    THEN Rendering(Element(t, 8 * (i - 1), 4), signed) \o "/"
                         \o Rendering(Element(t, 8 * (i - 1) + 4, 4), signed)
                    ELSE Rendering(Element(t, w * (i - 1), w), signed)

\* The description c with every structure big-endian.
Twin(c) == [c EXCEPT !.o = "BE", !.no = "BE"]

\* Whether the tags t and u have the same id, type, count, Values() and Uint().
SameTag(t, u) ==
    /\ t.Id = u.Id
    /\ t.Type = u.Type
    /\ t.Count = u.Count
    /\ Values(t) = Values(u)
    /\ Uint(t) = Uint(u)

SameTags(ts, us) ==
    /\ Len(ts) = Len(us)
    /\ \A k \in 1..Len(ts) : SameTag(ts[k], us[k])

SameVectors(f, g) ==
    /\ f.Index = g.Index
    /\ SameTags(f.tiff, g.tiff)
    /\ SameTags(f.exif, g.exif)
    /\ SameTags(f.gps, g.gps)
    /\ SameTags(f.notes, g.notes)

SameForest(fs, gs) ==
    /\ Len(fs) = Len(gs)
    /\ \A r \in 1..Len(fs) :
          /\ SameVectors(fs[r], gs[r])
          /\ Len(fs[r].Files) = Len(gs[r].Files)
          /\ \A j \in 1..Len(fs[r].Files) : SameVectors(fs[r].Files[j], gs[r].Files[j])

\* C15: the buffer that lays a content out little-endian and the buffer that
\* lays it out big-endian decode alike: both fail or both give forests of
\* the same structure whose tags have, one by one, the same id, type, count,
\* Values() and Uint(), for inline and for external payloads.
C15_OrderIndependence ==
    (Terminal /\ input.o = "LE" /\ (input.note = "nikon" => input.no = "LE")) =>
        /\ pc = "done" <=> Decode(Build(Twin(input))).err = "nil"
        /\ pc = "done" => SameForest(files, Decode(Build(Twin(input))).files)

\* C16: Bytes() of a raw-striped File reads ceil(ImageLength / RowsPerStrip)
\* strips, the two numbers being the values of the tags 0x101 and 0x116 as
\* Uint() gives them for their type: the same count, and the same bytes,
\* whether the tags are stored as Short or as Long and whether the buffer is
\* little-endian or big-endian.
C16_BlockCount ==
    (res.op = "Bytes" /\ res.path = "raw") =>
        LET f == FileAt(files, res.file)
        IN  (Holds(f.tiff, ImageLength) /\ ValueOf(f.tiff, RowsPerStrip) > 0) =>
              LET r == readStrips(buf, get(f, StripOffsets), get(f, StripByteCounts),
                                  Blocks(ValueOf(f.tiff, ImageLength),
                                         ValueOf(f.tiff, RowsPerStrip)),
                                  0, <<>>)
              IN  res.err = r.err /\ res.val = r.val

\* The offset right after the n entries of the directory at offset at.
AfterEntries(at) == at + 2 + 12 * Uint16(order, Slice(buf, at, 2))

\* What C17 states of one step of Decode.
ChainStep ==
    /\ (pc = "start" /\ pc' = "loop") =>
          offset' = Uint32(order', Slice(buf, 4, 4))
    /\ (pc = "loop" /\ offset # 0 /\ pc' # "failed") =>
          /\ Len(files') = Len(files) + 1
          /\ SubSeq(files', 1, Len(files)) = files
          /\ files'[Len(files')].Index = <<Len(files)>>
          /\ files'[Len(files')].tiff = readTags(buf, order, offset, 0, Tiff).tags
          /\ pc' = "loop" =>
                /\ offset' = Uint32(order, Slice(buf, AfterEntries(offset), 4))
                /\ pos' = AfterEntries(offset) + 4
    /\ (pc = "loop" /\ offset = 0) => (pc' = "done" /\ files' = files)

\* C17: Decode reads the first root offset at byte 4; for each offset O that
\* is not 0 it appends one root with Index [i], i counting from 0 along the
\* chain; after the root at O with n entries and its children, the next
\* offset of the chain is read at O + 2 + 12 * n, wherever the readers of
\* the children left the reader; offset 0 ends the chain and leaves the
\* forest as it is.
C17_ChainOrder == [][ChainStep]_vars

C17_Witness ==
    /\ pc = "done"
    /\ Len(files) >= 2
    /\ Len(files[1].Files) >= 2
    /\ files[1].exif # <<>>
    /\ files[1].notes # <<>>
    /\ files[2].Index = <<1>>

\* The offset of the k-th (from 1) root of the chain, read from the buffer.
RECURSIVE ChainOffset(_)
ChainOffset(k) ==
    IF k = 1 THEN Uint32(order, Slice(buf, 4, 4))
    ELSE Uint32(order, Slice(buf, AfterEntries(ChainOffset(k - 1)), 4))

\* C18: Decode ends on every buffer, also on one whose chain of roots comes
\* back to an offset already decoded.  Decode keeps nothing of a pass of its
\* loop but the next offset and the forest, so a pass at an offset decoded
\* before is followed by the same passes again, without end: Decode ends
\* only if no two roots of its forest were decoded at the same offset.
C18_NoRootTwice ==
    pc \in {"loop", "done"} =>
        \A i, j \in 1..Len(files) : i < j => ChainOffset(i) # ChainOffset(j)

\* C19: Bytes() and Image() of a raw-striped File end with bytes, an image
\* or an error value and with no run-time fault, whatever the values of its
\* tags: a RowsPerStrip of 0, a missing ImageLength, a missing Photometric.
C19_NoFault ==
    (res.op \in {"Bytes", "Image"} /\ res.path = "raw") =>
        res.err # "panic: integer divide by zero"

====
